---- MODULE Spec2Model ----
(***************************************************************************)
(* Payment reconciliation core of the e-commerce backend: the Click        *)
(* PREPARE/COMPLETE webhooks (ClickCallbackService), the invoice, status   *)
(* and reversal operations (ClickPaymentService), the admin payment CRUD   *)
(* (PaymentsService) and order creation (OrdersService), over one          *)
(* relational store holding Order, Payment and Transaction rows.           *)
(*                                                                         *)
(* Strings are sequences of integer character codes; amounts are counted   *)
(* in thousandths of a currency unit; MD5 is idealised as collision free    *)
(* (a digest is represented by the string it was computed from).           *)
(* A prisma.$transaction commits its writes in one step or rolls all of    *)
(* them back; awaits outside a transaction are separate steps, so other    *)
(* requests interleave between them.                                       *)
(***************************************************************************)
EXTENDS Integers, Sequences, FiniteSets, Bags, TLC

----------------------------------------------------------------------------
(* Bounds of the model *)

\* cap on the number of Transaction rows
MaxTx == 4

\* concurrent request slots
Procs == {1, 2}

----------------------------------------------------------------------------
(* Program constants *)

AmountTolerance == 10
ActionComplete == 1
HexSliceLen == 10
HexRadix == 16
InvoicePaid == 1
InvoiceCancelled == -99

\* character code standing for '-' in an id
Dash == 45

----------------------------------------------------------------------------
(* Values *)

Users == {"u1", "u2"}
\* the users who place orders
Customers == {"u1"}

\* ids: strings of hex digit values 0..15 and Dash
OrderId1 == <<10, 1, Dash, 2>>
MissingOrderId == <<11, 1, Dash, 2>>
OrderIdSeq == <<OrderId1>>
OrderIdInputs == {OrderId1, MissingOrderId}

PaymentIdSeq == <<(<<1, 10, Dash, 3>>)>>
NoId == <<>>

OrderTotal == 5000
\* request amounts: the order total, and one outside the tolerance
Amounts == {OrderTotal, OrderTotal + 20}

\* click_trans_id and invoice_id values issued by the gateway
ClickTransIds == {7}
InvoiceIds == {7}
\* the ids callers ask the status or the reversal of
LookupIds == {7, 8}

ServiceId == 3
SecretKey == <<83, 75>>
WrongKey == <<83, 76>>
SignTime == <<50, 48>>

Actions == {0, 1}
ProviderErrors == {0, -9}

OrderStatus == {"PENDING", "PAID", "CANCELLED"}
PaymentStatus == {"PENDING", "SUCCESS", "FAILED", "CANCELLED"}
PaymentMethod == {"CASH", "CARD", "CLICK", "PAYME"}

----------------------------------------------------------------------------
(* Conversions *)

RECURSIVE Digits(_)
Digits(n) == IF n < 10 THEN <<48 + n>> ELSE Digits(n \div 10) \o <<48 + (n % 10)>>

\* Number.prototype.toString / template interpolation of an integer
ToStr(n) == IF n < 0 THEN <<Dash>> \o Digits(-n) ELSE Digits(n)

\* id.replace(/-/g, '')
RemoveDashes(id) == SelectSeq(id, LAMBDA c : c # Dash)

RECURSIVE ParseHex(_)
ParseHex(s) ==
    IF s = <<>> THEN 0
    ELSE HexRadix * ParseHex(SubSeq(s, 1, Len(s) - 1)) + s[Len(s)]

\* parseInt(payment.id.replace(/-/g, '').substring(0, 10), 16)
PrepareId(id) ==
    LET s == RemoveDashes(id)
    IN  ParseHex(SubSeq(s, 1, IF Len(s) < HexSliceLen THEN Len(s) ELSE HexSliceLen))

RECURSIVE DecPrefix(_)
DecPrefix(s) ==
    IF s = <<>> \/ ~(Head(s) \in 0..9) THEN <<>> ELSE <<Head(s)>> \o DecPrefix(Tail(s))

RECURSIVE ParseDec(_)
ParseDec(s) ==
    IF s = <<>> THEN 0 ELSE 10 * ParseDec(SubSeq(s, 1, Len(s) - 1)) + s[Len(s)]

\* parseInt(order.payment.id): the leading run of decimal digits (NaN, when
\* there is none, is serialised as null and represented by 0)
ParseIntId(id) == ParseDec(DecPrefix(id))

\* the string the digest is computed from
SignData(transId, serviceId, key, merchantTransId, amount, action, signTime) ==
    ToStr(transId) \o ToStr(serviceId) \o key \o merchantTransId
    \o ToStr(amount) \o ToStr(action) \o signTime

\* crypto.createHash('md5').update(data).digest('hex')
MD5(data) == data

VerifySignatureAlways(dto, key) == TRUE

\* ClickCallbackService.verifySignature
VerifySignature(dto, key) ==
    MD5(SignData(dto.click_trans_id, dto.service_id, key, dto.merchant_trans_id,
                 dto.amount, dto.action, dto.sign_time)) = dto.sign_string

Abs(x) == IF x < 0 THEN -x ELSE x

----------------------------------------------------------------------------
(* The store *)

VARIABLES orders, payments, transactions, cards, pc, local

vars == <<orders, payments, transactions, cards, pc, local>>
dbvars == <<orders, payments, transactions, cards>>

\* orders: order id -> row; payments: order id -> row (Payment.orderId is the
\* unique key of the upsert); transactions: the bag of the rows, a row being
\* its columns without the generated id and timestamp; cards: card token ->
\* the UserCard row
DB == [orders |-> orders, payments |-> payments, transactions |-> transactions,
       cards |-> cards]

SetDB(d) ==
    /\ orders' = d.orders
    /\ payments' = d.payments
    /\ transactions' = d.transactions
    /\ cards' = d.cards

HasOrder(db, o) == o \in DOMAIN db.orders
HasPayment(db, o) == o \in DOMAIN db.payments

\* database-generated id of the next Payment row
NewPaymentId(db) ==
    LET n == Cardinality(DOMAIN db.payments) + 1
    IN  IF n <= Len(PaymentIdSeq) THEN PaymentIdSeq[n] ELSE NoId

PaymentKeys(db, pid) == {o \in DOMAIN db.payments : db.payments[o].id = pid}

TxRow(userId, orderId, paymentId, type, status, amount, description) ==
    [userId |-> userId, orderId |-> orderId, paymentId |-> paymentId, type |-> type,
     status |-> status, amount |-> amount, description |-> description]

(* the write statements of the handlers *)
PaymentCreate(orderId, amount, method, status, ext) ==
    [k |-> "payment.create", orderId |-> orderId, amount |-> amount,
     method |-> method, status |-> status, ext |-> ext]
PaymentUpdate(id, status, del) ==
    [k |-> "payment.update", id |-> id, status |-> status, del |-> del]
OrderUpdate(id, status) == [k |-> "order.update", id |-> id, status |-> status]
TransactionCreate(row) == [k |-> "transaction.create", row |-> row]
TransactionUpdateMany(paymentId, status) ==
    [k |-> "transaction.updateMany", paymentId |-> paymentId, status |-> status]
\* tx.userCard.update({where: {id}, data: {lastUsedAt}}): no modelled column
UserCardTouch(token) == [k |-> "userCard.update", token |-> token]

WriteThrowsNoUniqueKey(db, w) ==
    CASE w.k = "payment.create" -> ~HasOrder(db, w.orderId)
      [] w.k = "payment.update" -> PaymentKeys(db, w.id) = {}
      [] w.k = "order.update" -> ~HasOrder(db, w.id)
      [] w.k = "userCard.update" -> w.token \notin DOMAIN db.cards
      [] OTHER -> FALSE

\* the statement is refused by the store: unique key, foreign key, no such row
WriteThrows(db, w) ==
    CASE w.k = "payment.create" -> HasPayment(db, w.orderId) \/ ~HasOrder(db, w.orderId)
      [] w.k = "payment.update" -> PaymentKeys(db, w.id) = {}
      [] w.k = "order.update" -> ~HasOrder(db, w.id)
      [] w.k = "userCard.update" -> w.token \notin DOMAIN db.cards
      [] OTHER -> FALSE

RECURSIVE SumOver(_, _)
SumOver(b, rows) ==
    IF rows = {} THEN 0
    ELSE LET r == CHOOSE x \in rows : TRUE
         IN  b[r] + SumOver(b, rows \ {r})

\* the bag of rows with every row r replaced by F(r)
MapRows(b, F(_)) ==
    [r2 \in {F(r) : r \in DOMAIN b} |->
        SumOver(b, {r \in DOMAIN b : F(r) = r2})]

Apply(db, w) ==
    CASE w.k = "payment.create" ->
           [db EXCEPT !.payments = (w.orderId :>
               [id |-> NewPaymentId(db), amount |-> w.amount, method |-> w.method,
                status |-> w.status, ext |-> w.ext, deleted |-> FALSE]) @@ @]
      [] w.k = "payment.update" ->
           [db EXCEPT !.payments = [o \in DOMAIN @ |->
               IF @[o].id = w.id
               THEN [@[o] EXCEPT !.status = w.status,
                                 !.deleted = IF w.del THEN TRUE ELSE @]
               ELSE @[o]]]
      [] w.k = "order.update" ->
           [db EXCEPT !.orders[w.id].status = w.status]
      [] w.k = "transaction.create" ->
           [db EXCEPT !.transactions = @ (+) SetToBag({w.row})]
      [] w.k = "userCard.update" -> db
      [] w.k = "transaction.updateMany" ->
           [db EXCEPT !.transactions = MapRows(@, LAMBDA r :
               IF r.paymentId = w.paymentId /\ r.type = "PAYMENT"
               THEN [r EXCEPT !.status = w.status]
               ELSE r)]

\* the statements ws[i..] in order; failAt (0: none) is the statement at which
\* an injected failure of the store strikes
RECURSIVE RunWrites(_, _, _, _)
RunWrites(db, ws, i, failAt) ==
    IF i > Len(ws) THEN [db |-> db, ok |-> TRUE]
    ELSE IF i = failAt \/ WriteThrows(db, ws[i]) THEN [db |-> db, ok |-> FALSE]
    ELSE RunWrites(Apply(db, ws[i]), ws, i + 1, failAt)

FailPoints(ws) == 0..Len(ws)

RunTransactionNoRollback(db, ws, failAt) == RunWrites(db, ws, 1, failAt)

\* prisma.$transaction(async (tx) => ...): all the writes, or none of them
RunTransaction(db, ws, failAt) ==
    LET r == RunWrites(db, ws, 1, failAt)
    IN  [db |-> IF r.ok THEN r.db ELSE db, ok |-> r.ok]

WithinBounds(db) == BagCardinality(db.transactions) <= MaxTx

----------------------------------------------------------------------------
(* Requests in flight *)

NoLocal ==
    [orderId |-> NoId, userId |-> "", paymentId |-> NoId, amount |-> 0,
     transId |-> 0, error |-> 0, status |-> "", method |-> "", op |-> "",
     code |-> 0, id |-> 0, note |-> "", token |-> "", cardNumber |-> ""]

\* the handler answers: its response (or the status of the exception it
\* throws) is held until Reply hands it to the caller
Return(p, op, code, id, note) ==
    /\ pc' = [pc EXCEPT ![p] = "reply"]
    /\ local' = [local EXCEPT ![p] = [NoLocal EXCEPT !.op = op, !.code = code,
                                                      !.id = id, !.note = note]]

Goto(p, label, l) ==
    /\ pc' = [pc EXCEPT ![p] = label]
    /\ local' = [local EXCEPT ![p] = l]

Reply(p) ==
    /\ pc[p] = "reply"
    /\ pc' = [pc EXCEPT ![p] = "idle"]
    /\ local' = [local EXCEPT ![p] = NoLocal]
    /\ UNCHANGED dbvars

Init ==
    /\ orders = <<>>
    /\ payments = <<>>
    /\ transactions = EmptyBag
    /\ cards = <<>>
    /\ pc = [p \in Procs |-> "idle"]
    /\ local = [p \in Procs |-> NoLocal]

----------------------------------------------------------------------------
(* OrdersService *)

\* OrdersService.create: the Order and its 'awaiting payment' Transaction
OrdersCreate(p, userId) ==
    /\ pc[p] = "idle"
    /\ Cardinality(DOMAIN orders) < Len(OrderIdSeq)
    /\ LET id == OrderIdSeq[Cardinality(DOMAIN orders) + 1]
           ws == <<TransactionCreate(TxRow(userId, id, NoId, "PAYMENT", "PENDING",
                                           OrderTotal, "Order created"))>>
           db0 == [DB EXCEPT !.orders = (id :>
                      [userId |-> userId, total |-> OrderTotal, status |-> "PENDING",
                       deleted |-> FALSE]) @@ @]
           r == RunTransaction(db0, ws, 0)
       IN  /\ WithinBounds(r.db)
           /\ SetDB(r.db)
           /\ Return(p, "orders.create", 201, 0, "Created")

\* prisma.order.findFirst({where: {id, deletedAt: null}}) of update and delete
FindLiveOrder(db, id) == HasOrder(db, id) /\ ~db.orders[id].deleted

\* OrdersService.update: the lookup
OrdersUpdateRead(p, id, status) ==
    /\ pc[p] = "idle"
    /\ UNCHANGED dbvars
    /\ IF ~FindLiveOrder(DB, id)
       THEN Return(p, "orders.update", 404, 0, "Order not found")
       ELSE Goto(p, "orders_update",
                 [NoLocal EXCEPT !.orderId = id,
                                 !.status = IF status = "" THEN orders[id].status
                                            ELSE status])

\* OrdersService.update: prisma.order.update({data: {status: dto.status ?? existing.status}})
OrdersUpdateWrite(p, fail) ==
    /\ pc[p] = "orders_update"
    /\ IF fail \/ ~HasOrder(DB, local[p].orderId)
       THEN /\ UNCHANGED dbvars
            /\ Return(p, "orders.update", 500, 0, "Internal server error")
       ELSE /\ SetDB(Apply(DB, OrderUpdate(local[p].orderId, local[p].status)))
            /\ Return(p, "orders.update", 200, 0, "OK")

\* OrdersService.delete: the lookup
OrdersDeleteRead(p, id) ==
    /\ pc[p] = "idle"
    /\ UNCHANGED dbvars
    /\ IF ~FindLiveOrder(DB, id)
       THEN Return(p, "orders.delete", 404, 0, "Order not found")
       ELSE Goto(p, "orders_delete",
                 [NoLocal EXCEPT !.orderId = id, !.userId = orders[id].userId,
                                 !.amount = orders[id].total])

\* OrdersService.delete: the soft delete, a statement of its own
OrdersDeleteUpdate(p, fail) ==
    /\ pc[p] = "orders_delete"
    /\ IF fail \/ ~HasOrder(DB, local[p].orderId)
       THEN /\ UNCHANGED dbvars
            /\ Return(p, "orders.delete", 500, 0, "Internal server error")
       ELSE /\ orders' = [orders EXCEPT ![local[p].orderId].deleted = TRUE]
            /\ UNCHANGED <<payments, transactions, cards>>
            /\ Goto(p, "orders_delete_log", local[p])

\* OrdersService.delete: the REFUND Transaction row, a statement of its own
OrdersDeleteLog(p, fail) ==
    /\ pc[p] = "orders_delete_log"
    /\ IF fail
       THEN /\ UNCHANGED dbvars
            /\ Return(p, "orders.delete", 500, 0, "Internal server error")
       ELSE LET l == local[p]
                db == Apply(DB, TransactionCreate(
                          TxRow(l.userId, l.orderId, NoId, "REFUND", "SUCCESS",
                                l.amount, "Order cancelled and refunded")))
            IN  /\ WithinBounds(db)
                /\ SetDB(db)
                /\ Return(p, "orders.delete", 200, 0, "OK")

----------------------------------------------------------------------------
(* ClickCallbackService *)

\* the digests a caller may supply for its fields: the genuine one, one made
\* with another key, one made for another amount
SignStrings(transId, orderId, amount, action) ==
    <<MD5(SignData(transId, ServiceId, SecretKey, orderId, amount, action, SignTime)),
      MD5(SignData(transId, ServiceId, WrongKey, orderId, amount, action, SignTime)),
      MD5(SignData(transId, ServiceId, SecretKey, orderId, amount + 1, action, SignTime))>>

ClickRequestsOf(transIds, amounts) ==
    {[click_trans_id |-> t, service_id |-> ServiceId, merchant_trans_id |-> o,
      amount |-> a, action |-> act, error |-> e, sign_time |-> SignTime,
      sign_string |-> SignStrings(t, o, a, act)[sg]] :
        t \in transIds, o \in OrderIdInputs, a \in amounts, act \in Actions,
        e \in ProviderErrors, sg \in {1, 2, 3}}

ClickRequests == ClickRequestsOf(ClickTransIds, Amounts)

FindOrderDeletedToo(db, id) == HasOrder(db, id)

\* prisma.order.findFirst({where: {id, deletedAt: null}, include: {payment: true}})
FindOrder(db, id) == HasOrder(db, id) /\ ~db.orders[id].deleted

\* Math.abs(order.total - dto.amount) > 0.01
AmountMismatch(total, amount) == Abs(total - amount) > AmountTolerance

\* handlePrepare up to the upsert: the code of the rejection, 0 when none
PrepareCheck(db, dto) ==
    IF ~VerifySignature(dto, SecretKey) THEN -1
    ELSE IF ~FindOrder(db, dto.merchant_trans_id) THEN -5
    ELSE IF db.orders[dto.merchant_trans_id].status # "PENDING" THEN -4
    ELSE IF AmountMismatch(db.orders[dto.merchant_trans_id].total, dto.amount) THEN -2
    ELSE IF HasPayment(db, dto.merchant_trans_id)
            /\ db.payments[dto.merchant_trans_id].status = "SUCCESS" THEN -4
    ELSE 0

\* the error_note of a rejected PREPARE
PrepareNote(db, dto) ==
    LET code == PrepareCheck(db, dto)
    IN  CASE code = -1 -> "Invalid signature"
          [] code = -5 -> "Order not found"
          [] code = -2 -> "Incorrect amount"
          [] code = -4 -> IF db.orders[dto.merchant_trans_id].status # "PENDING"
                          THEN "Order already " \o db.orders[dto.merchant_trans_id].status
                          ELSE "Payment already completed"
          [] OTHER -> "Success"

\* handlePrepare: signature, order lookup and the checks on what was read
PrepareRead(p, dto) ==
    /\ pc[p] = "idle"
    /\ UNCHANGED dbvars
    /\ LET o == dto.merchant_trans_id
           code == PrepareCheck(DB, dto)
       IN  IF code # 0
           THEN Return(p, "prepare", code,
                       IF code = -4 /\ orders[o].status = "PENDING"
                       THEN ParseIntId(payments[o].id) ELSE 0,
                       PrepareNote(DB, dto))
           ELSE Goto(p, "prepare_upsert",
                     [NoLocal EXCEPT !.orderId = o, !.userId = orders[o].userId,
                                     !.amount = dto.amount,
                                     !.transId = dto.click_trans_id])

\* handlePrepare: prisma.order.findFirst throws; the exception reaches
\* ClickCallbackController.prepare, which answers -1
PrepareReadThrows(p, dto) ==
    /\ pc[p] = "idle"
    /\ VerifySignature(dto, SecretKey)
    /\ UNCHANGED dbvars
    /\ Return(p, "prepare", -1, 0, "Internal server error")

PaymentUpsertCreateOnly(db, orderId, amount, ext) ==
    IF HasPayment(db, orderId) THEN db
    ELSE Apply(db, PaymentCreate(orderId, amount, "CLICK", "PENDING", ext))

\* prisma.payment.upsert({where: {orderId}, update: {...}, create: {...}})
PaymentUpsert(db, orderId, amount, ext) ==
    IF HasPayment(db, orderId)
    THEN [db EXCEPT !.payments[orderId].status = "PENDING",
                    !.payments[orderId].ext = ext]
    ELSE Apply(db, PaymentCreate(orderId, amount, "CLICK", "PENDING", ext))

\* handlePrepare: the upsert, a statement of its own outside any transaction
PrepareUpsert(p, fail) ==
    /\ pc[p] = "prepare_upsert"
    /\   IF fail
         THEN /\ UNCHANGED dbvars
              /\ Return(p, "prepare", -1, 0, "Internal server error")
         ELSE LET l == local[p]
                  db == PaymentUpsert(DB, l.orderId, l.amount, ToStr(l.transId))
              IN  /\ SetDB(db)
                  /\ Goto(p, "prepare_log",
                          [l EXCEPT !.paymentId = db.payments[l.orderId].id])

\* handlePrepare: the PENDING Transaction row and the success response
PrepareLog(p, fail) ==
    /\ pc[p] = "prepare_log"
    /\   IF fail
         THEN /\ UNCHANGED dbvars
              /\ Return(p, "prepare", -1, 0, "Internal server error")
         ELSE LET l == local[p]
                  db == Apply(DB, TransactionCreate(
                            TxRow(l.userId, l.orderId, l.paymentId, "PAYMENT",
                                  "PENDING", l.amount, "Click PREPARE")))
              IN  /\ WithinBounds(db)
                  /\ SetDB(db)
                  /\ Return(p, "prepare", 0, PrepareId(l.paymentId), "Success")

CompleteCheckNoAction(db, dto) ==
    IF ~VerifySignature(dto, SecretKey) THEN -1
    ELSE IF ~FindOrder(db, dto.merchant_trans_id) THEN -5
    ELSE IF ~HasPayment(db, dto.merchant_trans_id) THEN -6
    ELSE IF db.payments[dto.merchant_trans_id].status = "SUCCESS" THEN 0
    ELSE 1

CompleteCheckNoShortCircuit(db, dto) ==
    IF ~VerifySignature(dto, SecretKey) THEN -1
    ELSE IF ~FindOrder(db, dto.merchant_trans_id) THEN -5
    ELSE IF ~HasPayment(db, dto.merchant_trans_id) THEN -6
    ELSE IF dto.action # ActionComplete THEN -3
    ELSE 1

\* handleComplete up to its transaction: the code of the response returned
\* without a write, 1 when the handler goes on to write
CompleteCheck(db, dto) ==
    IF ~VerifySignature(dto, SecretKey) THEN -1
    ELSE IF ~FindOrder(db, dto.merchant_trans_id) THEN -5
    ELSE IF ~HasPayment(db, dto.merchant_trans_id) THEN -6
    ELSE IF db.payments[dto.merchant_trans_id].status = "SUCCESS" THEN 0
    ELSE IF dto.action # ActionComplete THEN -3
    ELSE 1

\* the error_note of a COMPLETE answered without a write
CompleteNote(code) ==
    CASE code = -1 -> "Invalid signature"
      [] code = -5 -> "Order not found"
      [] code = -6 -> "Payment not found"
      [] code = 0 -> "Already paid"
      [] code = -3 -> "Invalid action"
      [] OTHER -> ""

\* handleComplete: signature, order lookup and the checks on what was read
CompleteRead(p, dto) ==
    /\ pc[p] = "idle"
    /\ UNCHANGED dbvars
    /\ LET o == dto.merchant_trans_id
           code == CompleteCheck(DB, dto)
       IN  IF code # 1
           THEN Return(p, "complete", code,
                       IF code = 0 THEN PrepareId(payments[o].id) ELSE 0,
                       CompleteNote(code))
           ELSE Goto(p, "complete_tx",
                     [NoLocal EXCEPT !.orderId = o, !.userId = orders[o].userId,
                                     !.paymentId = payments[o].id,
                                     !.amount = dto.amount,
                                     !.error = dto.error])

\* handleComplete: prisma.order.findFirst throws; the exception reaches
\* ClickCallbackController.complete, which answers -1
CompleteReadThrows(p, dto) ==
    /\ pc[p] = "idle"
    /\ VerifySignature(dto, SecretKey)
    /\ UNCHANGED dbvars
    /\ Return(p, "complete", -1, 0, "Internal server error")

CompleteWritesAlwaysPaid(l) ==
    <<PaymentUpdate(l.paymentId, IF l.error < 0 THEN "FAILED" ELSE "SUCCESS", FALSE),
      OrderUpdate(l.orderId, "PAID"),
      TransactionCreate(TxRow(l.userId, l.orderId, l.paymentId, "PAYMENT",
                              IF l.error < 0 THEN "FAILED" ELSE "SUCCESS", l.amount,
                              IF l.error < 0 THEN "Click COMPLETE failed"
                              ELSE "Click payment completed"))>>

\* the statements of handleComplete's transaction
CompleteWrites(l) ==
    IF l.error < 0
    THEN <<PaymentUpdate(l.paymentId, "FAILED", FALSE),
           TransactionCreate(TxRow(l.userId, l.orderId, l.paymentId, "PAYMENT",
                                   "FAILED", l.amount, "Click COMPLETE failed"))>>
    ELSE <<PaymentUpdate(l.paymentId, "SUCCESS", FALSE),
           OrderUpdate(l.orderId, "PAID"),
           TransactionCreate(TxRow(l.userId, l.orderId, l.paymentId, "PAYMENT",
                                   "SUCCESS", l.amount, "Click payment completed"))>>

CompleteTxRethrows(p, failAt) ==
    /\ pc[p] = "complete_tx"
    /\ failAt \in FailPoints(CompleteWrites(local[p]))
    /\   LET l == local[p]
             r == RunTransaction(DB, CompleteWrites(l), failAt)
         IN  /\ WithinBounds(r.db)
             /\ SetDB(r.db)
             /\ IF ~r.ok THEN Return(p, "complete", 500, 0, "Internal server error")
                ELSE IF l.error < 0
                     THEN Return(p, "complete", l.error, 0, "Provider error")
                ELSE Return(p, "complete", 0, PrepareId(l.paymentId), "Success")

\* handleComplete: the transaction and the response after it; an exception
\* reaches ClickCallbackController.complete, which answers -1
CompleteTx(p, failAt) ==
    /\ pc[p] = "complete_tx"
    /\ failAt \in FailPoints(CompleteWrites(local[p]))
    /\   LET l == local[p]
             r == RunTransaction(DB, CompleteWrites(l), failAt)
         IN  /\ WithinBounds(r.db)
             /\ SetDB(r.db)
             /\ IF ~r.ok THEN Return(p, "complete", -1, 0, "Internal server error")
                ELSE IF l.error < 0
                     THEN Return(p, "complete", l.error, 0, "Provider error")
                ELSE Return(p, "complete", 0, PrepareId(l.paymentId), "Success")

----------------------------------------------------------------------------
(* ClickProvider: the replies of the gateway *)

\* a reply: unreachable (fetch throws), or error_code with the status field
GatewayReplies(statuses) ==
    {[reached |-> FALSE, error_code |-> 0, status |-> 0]}
    \cup {[reached |-> TRUE, error_code |-> -500, status |-> 0]}
    \cup {[reached |-> TRUE, error_code |-> 0, status |-> st] : st \in statuses}

GatewaySuccessAlways(reply) == TRUE

\* ClickProvider.createInvoice / checkInvoiceStatus: {success, ...}
GatewaySuccess(reply) == reply.reached /\ reply.error_code = 0

\* ClickProvider.checkPayment: never throws, 'failed' when the call fails
CheckPayment(reply) ==
    IF GatewaySuccess(reply)
    THEN CASE reply.status = 1 -> "success"
           [] reply.status = -1 -> "failed"
           [] reply.status = -2 -> "cancelled"
           [] OTHER -> "pending"
    ELSE "failed"

CancelPaymentGatewayAlways(reply) == TRUE

\* ClickProvider.cancelPayment: true only on error_code 0
CancelPaymentGateway(reply) == GatewaySuccess(reply)

----------------------------------------------------------------------------
(* ClickPaymentService *)

\* prisma.payment.findFirst({where: {externalTransactionId, method: CLICK}})
FindClickPayment(db, ext, liveOnly) ==
    {o \in DOMAIN db.payments :
        /\ db.payments[o].ext = ext
        /\ db.payments[o].method = "CLICK"
        /\ (liveOnly => ~db.payments[o].deleted)}

CreateInvoiceCheckAnyOwner(db, userId, orderId) ==
    IF ~FindOrder(db, orderId) THEN 404
    ELSE IF HasPayment(db, orderId) THEN 400
    ELSE IF db.orders[orderId].status # "PENDING" THEN 400
    ELSE 0

\* createInvoice up to the gateway call: the order lookup and its checks
CreateInvoiceCheck(db, userId, orderId) ==
    IF ~(FindOrder(db, orderId) /\ db.orders[orderId].userId = userId) THEN 404
    ELSE IF HasPayment(db, orderId) THEN 400
    ELSE IF db.orders[orderId].status # "PENDING" THEN 400
    ELSE 0

CreateInvoiceRead(p, userId, orderId, amount) ==
    /\ pc[p] = "idle"
    /\ UNCHANGED dbvars
    /\ LET code == CreateInvoiceCheck(DB, userId, orderId)
       IN  IF code # 0 THEN Return(p, "createInvoice", code, 0, "Rejected")
           ELSE Goto(p, "invoice_call",
                     [NoLocal EXCEPT !.orderId = orderId, !.userId = userId,
                                     !.amount = amount])

CreateInvoiceWrites(db, l, invoiceId) ==
    <<PaymentCreate(l.orderId, l.amount, "CLICK", "PENDING", ToStr(invoiceId)),
      TransactionCreate(TxRow(l.userId, l.orderId, NewPaymentId(db), "PAYMENT",
                              "PENDING", l.amount, "Click invoice created"))>>

\* createInvoice: the gateway call and, when it succeeds, the transaction
CreateInvoiceCall(p, reply, failAt) ==
    /\ pc[p] = "invoice_call"
    /\ reply \in GatewayReplies(InvoiceIds)
    /\ failAt \in FailPoints(CreateInvoiceWrites(DB, local[p], reply.status))
    /\   IF ~(GatewaySuccess(reply) /\ reply.status # 0)
         THEN /\ failAt = 0
              /\ UNCHANGED dbvars
              /\ Return(p, "createInvoice", 400, 0, "Failed to create Click invoice")
         ELSE LET r == RunTransaction(DB, CreateInvoiceWrites(DB, local[p], reply.status),
                                      failAt)
              IN  /\ WithinBounds(r.db)
                  /\ SetDB(r.db)
                  /\ IF r.ok
                     THEN Return(p, "createInvoice", 201, reply.status, "Invoice created")
                     ELSE Return(p, "createInvoice", 500, 0, "Internal server error")

\* ClickPaymentService.updatePaymentStatus: the statements of its transaction
UpdatePaymentStatusWrites(paymentId, newStatus, orderId) ==
    <<PaymentUpdate(paymentId, newStatus, FALSE),
      OrderUpdate(orderId,
                  IF newStatus = "SUCCESS" THEN "PAID"
                  ELSE IF newStatus \in {"FAILED", "CANCELLED"} THEN "CANCELLED"
                  ELSE "PENDING"),
      TransactionUpdateMany(paymentId,
                  IF newStatus = "SUCCESS" THEN "SUCCESS"
                  ELSE IF newStatus = "FAILED" THEN "FAILED"
                  ELSE "PENDING")>>

\* the status checkInvoiceStatus moves the Payment to, "" when none
InvoiceNewStatus(status) ==
    IF status = InvoicePaid THEN "SUCCESS"
    ELSE IF status = InvoiceCancelled THEN "CANCELLED"
    ELSE ""

\* checkInvoiceStatus: the gateway call, then the payment lookup
CheckInvoiceStatusRead(p, invoiceId, reply) ==
    /\ pc[p] = "idle"
    /\ UNCHANGED dbvars
    /\ reply \in GatewayReplies({0, InvoicePaid, InvoiceCancelled})
    /\   IF ~GatewaySuccess(reply)
         THEN Return(p, "checkInvoiceStatus", 400, 0, "Failed to check invoice status")
         ELSE LET found == FindClickPayment(DB, ToStr(invoiceId), FALSE)
              IN  IF found = {} \/ InvoiceNewStatus(reply.status) = ""
                  THEN Return(p, "checkInvoiceStatus", 200, reply.status, "OK")
                  ELSE \E o \in found :
                         Goto(p, "status_tx",
                              [NoLocal EXCEPT !.orderId = o,
                                              !.paymentId = payments[o].id,
                                              !.status = InvoiceNewStatus(reply.status),
                                              !.op = "checkInvoiceStatus"])

\* the status checkPaymentStatus moves the Payment to, "" when none
PaymentNewStatus(result, current) ==
    IF result = "success" /\ current # "SUCCESS" THEN "SUCCESS"
    ELSE IF result = "failed" /\ current # "FAILED" THEN "FAILED"
    ELSE IF result = "cancelled" /\ current # "CANCELLED" THEN "CANCELLED"
    ELSE ""

\* checkPaymentStatus: the gateway call, then the payment lookup
CheckPaymentStatusRead(p, paymentId, reply) ==
    /\ pc[p] = "idle"
    /\ UNCHANGED dbvars
    /\ reply \in GatewayReplies({0, 1, -1, -2})
    /\   LET found == FindClickPayment(DB, paymentId, FALSE)
         IN  IF found = {}
             THEN Return(p, "checkPaymentStatus", 200, 0, CheckPayment(reply))
             ELSE \E o \in found :
                    IF PaymentNewStatus(CheckPayment(reply), payments[o].status) = ""
                    THEN Return(p, "checkPaymentStatus", 200, 0, CheckPayment(reply))
                    ELSE Goto(p, "status_tx",
                              [NoLocal EXCEPT !.orderId = o,
                                              !.paymentId = payments[o].id,
                                              !.status = PaymentNewStatus(
                                                  CheckPayment(reply), payments[o].status),
                                              !.op = "checkPaymentStatus"])

\* updatePaymentStatus, called by checkInvoiceStatus and checkPaymentStatus
UpdatePaymentStatusTx(p, failAt) ==
    /\ pc[p] = "status_tx"
    /\ failAt \in FailPoints(UpdatePaymentStatusWrites(NoId, "", NoId))
    /\   LET l == local[p]
             r == RunTransaction(DB, UpdatePaymentStatusWrites(l.paymentId, l.status,
                                                               l.orderId), failAt)
         IN  /\ SetDB(r.db)
             /\ IF r.ok THEN Return(p, l.op, 200, 0, "OK")
                ELSE Return(p, l.op, 500, 0, "Internal server error")

CancelPaymentCheckNone(db, paymentId) ==
    IF FindClickPayment(db, paymentId, TRUE) = {} THEN 404 ELSE 0

\* cancelPayment up to the gateway call: the payment lookup and its check
CancelPaymentCheck(db, paymentId) ==
    IF FindClickPayment(db, paymentId, TRUE) = {} THEN 404
    ELSE IF \E o \in FindClickPayment(db, paymentId, TRUE) :
               db.payments[o].status # "SUCCESS" THEN 400
    ELSE 0

CancelPaymentRead(p, paymentId) ==
    /\ pc[p] = "idle"
    /\ UNCHANGED dbvars
    /\ LET code == CancelPaymentCheck(DB, paymentId)
       IN  IF code # 0
           THEN Return(p, "cancelPayment", code, 0,
                       IF code = 404 THEN "Payment not found"
                       ELSE "Can only cancel successful payments")
           ELSE \E o \in FindClickPayment(DB, paymentId, TRUE) :
                  Goto(p, "cancel_call",
                       [NoLocal EXCEPT !.orderId = o, !.userId = orders[o].userId,
                                       !.paymentId = payments[o].id,
                                       !.amount = payments[o].amount,
                                       !.status = payments[o].status])

CancelPaymentWritesNoOrder(l) ==
    <<PaymentUpdate(l.paymentId, "CANCELLED", TRUE),
      TransactionCreate(TxRow(l.userId, l.orderId, l.paymentId, "REFUND", "SUCCESS",
                              l.amount, "Payment cancelled and refunded via Click"))>>

\* the statements of cancelPayment's transaction
CancelPaymentWrites(l) ==
    <<PaymentUpdate(l.paymentId, "CANCELLED", TRUE),
      OrderUpdate(l.orderId, "CANCELLED"),
      TransactionCreate(TxRow(l.userId, l.orderId, l.paymentId, "REFUND", "SUCCESS",
                              l.amount, "Payment cancelled and refunded via Click"))>>

\* cancelPayment: the reversal call and, when it is confirmed, the transaction
CancelPaymentCall(p, reply, failAt) ==
    /\ pc[p] = "cancel_call"
    /\ reply \in GatewayReplies({0})
    /\ failAt \in FailPoints(CancelPaymentWrites(local[p]))
    /\   IF ~CancelPaymentGateway(reply)
         THEN /\ failAt = 0
              /\ UNCHANGED dbvars
              /\ Return(p, "cancelPayment", 400, 0, "Failed to cancel payment")
         ELSE LET r == RunTransaction(DB, CancelPaymentWrites(local[p]), failAt)
              IN  /\ WithinBounds(r.db)
                  /\ SetDB(r.db)
                  /\ IF r.ok
                     THEN Return(p, "cancelPayment", 200, 0, "Payment cancelled successfully")
                     ELSE Return(p, "cancelPayment", 500, 0, "Internal server error")

----------------------------------------------------------------------------
(* ClickPaymentService: saved cards and payment with a card token *)

\* the card token the gateway issues, and one it never issued
Tokens == {"t1"}
TokenInputs == {"t1", "t0"}
\* the full card number the gateway reports for a verified token
CardNumbers == {"8600"}

\* requestCardToken: the gateway call, then userCard.create with isActive false
RequestCardToken(p, userId, reply, fail) ==
    /\ pc[p] = "idle"
    /\ reply \in GatewayReplies({0})
    /\ IF ~GatewaySuccess(reply)
       THEN /\ ~fail
            /\ UNCHANGED dbvars
            /\ Return(p, "requestCardToken", 400, 0, "Failed to request card token")
       ELSE \E t \in Tokens :
              /\ t \notin DOMAIN cards
              /\ IF fail
                 THEN /\ UNCHANGED dbvars
                      /\ Return(p, "requestCardToken", 500, 0, "Internal server error")
                 ELSE /\ cards' = (t :> [userId |-> userId, number |-> "",
                                          active |-> FALSE, deleted |-> FALSE]) @@ cards
                      /\ UNCHANGED <<orders, payments, transactions>>
                      /\ Return(p, "requestCardToken", 201, 0, "SMS verification code sent")

FindLiveCardAnyOwner(db, userId, token) ==
    token \in DOMAIN db.cards /\ ~db.cards[token].deleted

\* prisma.userCard.findFirst({where: {userId, cardToken, deletedAt: null}})
FindLiveCard(db, userId, token) ==
    /\ token \in DOMAIN db.cards
    /\ db.cards[token].userId = userId
    /\ ~db.cards[token].deleted

\* the answers of the gateway to /card_token/verify: card_number is the
\* response's card_number, "" when it carries none
VerifyReplies ==
    {[reached |-> r.reached, error_code |-> r.error_code, card_number |-> n] :
        r \in GatewayReplies({0}), n \in CardNumbers \cup {""}}

\* verifyCardToken: the gateway call and the card lookup
VerifyCardTokenRead(p, userId, token, reply) ==
    /\ pc[p] = "idle"
    /\ reply \in VerifyReplies
    /\ UNCHANGED dbvars
    /\ IF ~GatewaySuccess(reply)
       THEN Return(p, "verifyCardToken", 400, 0, "Failed to verify card token")
       ELSE IF reply.card_number = ""
       THEN Return(p, "verifyCardToken", 400, 0, "Card number not received from Click")
       ELSE IF ~FindLiveCard(DB, userId, token)
       THEN Return(p, "verifyCardToken", 404, 0, "Card token not found")
       ELSE Goto(p, "card_verify",
                 [NoLocal EXCEPT !.userId = userId, !.token = token,
                                 !.cardNumber = reply.card_number])

\* verifyCardToken: userCard.update({data: {cardNumber, isActive: true}})
VerifyCardTokenWrite(p, fail) ==
    /\ pc[p] = "card_verify"
    /\ IF fail \/ local[p].token \notin DOMAIN cards
       THEN /\ UNCHANGED dbvars
            /\ Return(p, "verifyCardToken", 500, 0, "Internal server error")
       ELSE /\ cards' = [cards EXCEPT ![local[p].token].number = local[p].cardNumber,
                                      ![local[p].token].active = TRUE]
            /\ UNCHANGED <<orders, payments, transactions>>
            /\ Return(p, "verifyCardToken", 200, 0, "Card verified and saved successfully")

\* deleteCardToken: the card lookup
DeleteCardTokenRead(p, userId, token) ==
    /\ pc[p] = "idle"
    /\ UNCHANGED dbvars
    /\ IF ~FindLiveCard(DB, userId, token)
       THEN Return(p, "deleteCardToken", 404, 0, "Card token not found")
       ELSE Goto(p, "card_delete", [NoLocal EXCEPT !.userId = userId, !.token = token])

\* deleteCardToken: the gateway call, then the soft delete
DeleteCardTokenCall(p, reply, fail) ==
    /\ pc[p] = "card_delete"
    /\ reply \in GatewayReplies({0})
    /\ IF ~GatewaySuccess(reply)
       THEN /\ ~fail
            /\ UNCHANGED dbvars
            /\ Return(p, "deleteCardToken", 400, 0, "Failed to delete card token")
       ELSE IF fail \/ local[p].token \notin DOMAIN cards
       THEN /\ UNCHANGED dbvars
            /\ Return(p, "deleteCardToken", 500, 0, "Internal server error")
       ELSE /\ cards' = [cards EXCEPT ![local[p].token].active = FALSE,
                                      ![local[p].token].deleted = TRUE]
            /\ UNCHANGED <<orders, payments, transactions>>
            /\ Return(p, "deleteCardToken", 200, 0, "Card deleted successfully")

\* paymentWithToken up to the card lookup: the order lookup and its checks
TokenPayCheck(db, userId, orderId) ==
    IF ~(FindOrder(db, orderId) /\ db.orders[orderId].userId = userId) THEN 404
    ELSE IF HasPayment(db, orderId) THEN 400
    ELSE IF db.orders[orderId].status # "PENDING" THEN 400
    ELSE 0

TokenPayRead(p, userId, orderId, amount, token) ==
    /\ pc[p] = "idle"
    /\ UNCHANGED dbvars
    /\ LET code == TokenPayCheck(DB, userId, orderId)
       IN  IF code # 0 THEN Return(p, "paymentWithToken", code, 0, "Rejected")
           ELSE Goto(p, "token_card",
                     [NoLocal EXCEPT !.orderId = orderId, !.userId = userId,
                                     !.amount = amount, !.token = token])

FindUserCardInactiveToo(db, userId, token) == FindLiveCard(db, userId, token)

\* prisma.userCard.findFirst({where: {userId, cardToken, isActive: true, deletedAt: null}})
FindUserCard(db, userId, token) ==
    FindLiveCard(db, userId, token) /\ db.cards[token].active

\* paymentWithToken: the card lookup
TokenPayCard(p) ==
    /\ pc[p] = "token_card"
    /\ UNCHANGED dbvars
    /\ IF ~FindUserCard(DB, local[p].userId, local[p].token)
       THEN Return(p, "paymentWithToken", 400, 0, "Card token not found or not verified")
       ELSE Goto(p, "token_call", local[p])

TokenPayWritesAlwaysPaid(db, l, payId, paid) ==
    <<PaymentCreate(l.orderId, l.amount, "CLICK",
                    IF paid THEN "SUCCESS" ELSE "PENDING", ToStr(payId)),
      TransactionCreate(TxRow(l.userId, l.orderId, NewPaymentId(db), "PAYMENT",
                              IF paid THEN "SUCCESS" ELSE "PENDING", l.amount,
                              "Payment via Click card token")),
      UserCardTouch(l.token),
      OrderUpdate(l.orderId, "PAID")>>

\* the statements of paymentWithToken's transaction
TokenPayWrites(db, l, payId, paid) ==
    <<PaymentCreate(l.orderId, l.amount, "CLICK",
                    IF paid THEN "SUCCESS" ELSE "PENDING", ToStr(payId)),
      TransactionCreate(TxRow(l.userId, l.orderId, NewPaymentId(db), "PAYMENT",
                              IF paid THEN "SUCCESS" ELSE "PENDING", l.amount,
                              "Payment via Click card token")),
      UserCardTouch(l.token)>>
    \o (IF paid THEN <<OrderUpdate(l.orderId, "PAID")>> ELSE <<>>)

\* paymentWithToken: the gateway call and, when it succeeds, the transaction
TokenPayCall(p, reply, payId, failAt) ==
    /\ pc[p] = "token_call"
    /\ reply \in GatewayReplies({0, InvoicePaid})
    /\ LET ws == TokenPayWrites(DB, local[p], payId, reply.status = InvoicePaid)
       IN  /\ failAt \in FailPoints(ws)
           /\ IF ~GatewaySuccess(reply)
              THEN /\ failAt = 0
                   /\ UNCHANGED dbvars
                   /\ Return(p, "paymentWithToken", 400, 0, "Payment failed")
              ELSE LET r == RunTransaction(DB, ws, failAt)
                   IN  /\ WithinBounds(r.db)
                       /\ SetDB(r.db)
                       /\ IF ~r.ok
                          THEN Return(p, "paymentWithToken", 500, 0,
                                      "Internal server error")
                          ELSE Return(p, "paymentWithToken", 201, payId,
                                      IF reply.status = InvoicePaid
                                      THEN "Payment successful"
                                      ELSE "Payment processing")

----------------------------------------------------------------------------
(* PaymentsService *)

\* PaymentProviderFactory.getProvider throws for a method it does not list
ProviderKnown(method) == method \in {"CLICK", "CASH", "CARD"}

\* create up to its transaction: the order lookup and the provider
PaymentsCreateCheck(db, orderId, method) ==
    IF ~HasOrder(db, orderId) THEN 404
    ELSE IF HasPayment(db, orderId) THEN 400
    ELSE IF method = "PAYME" /\ ~ProviderKnown(method) THEN 500
    ELSE 0

PaymentsCreateRead(p, orderId, amount, method) ==
    /\ pc[p] = "idle"
    /\ UNCHANGED dbvars
    /\ LET code == PaymentsCreateCheck(DB, orderId, method)
       IN  IF code # 0 THEN Return(p, "payments.create", code, 0, "Rejected")
           ELSE Goto(p, "pcreate_tx",
                     [NoLocal EXCEPT !.orderId = orderId,
                                     !.userId = orders[orderId].userId,
                                     !.amount = amount, !.method = method])

\* the statements of create's transaction
PaymentsCreateWrites(db, l) ==
    IF l.method = "PAYME"
    THEN <<PaymentCreate(l.orderId, l.amount, l.method, "PENDING", NoId),
           TransactionCreate(TxRow(l.userId, l.orderId, NewPaymentId(db), "PAYMENT",
                                   "PENDING", l.amount, "Payment initiated"))>>
    ELSE <<PaymentCreate(l.orderId, l.amount, l.method,
                         IF l.method = "CASH" THEN "PENDING" ELSE "SUCCESS", NoId),
           TransactionCreate(TxRow(l.userId, l.orderId, NewPaymentId(db), "PAYMENT",
                                   IF l.method = "CASH" THEN "PENDING" ELSE "SUCCESS",
                                   l.amount, "Payment completed"))>>
         \o (IF l.method = "CARD" THEN <<OrderUpdate(l.orderId, "PAID")>> ELSE <<>>)

PaymentsCreateTx(p, failAt) ==
    /\ pc[p] = "pcreate_tx"
    /\ failAt \in FailPoints(PaymentsCreateWrites(DB, local[p]))
    /\   LET r == RunTransaction(DB, PaymentsCreateWrites(DB, local[p]), failAt)
         IN  /\ WithinBounds(r.db)
             /\ SetDB(r.db)
             /\ IF r.ok THEN Return(p, "payments.create", 201, 0, "Created")
                ELSE Return(p, "payments.create", 500, 0, "Internal server error")

\* prisma.payment.findFirst({where: {id, deletedAt: null}})
FindPayment(db, id) == {o \in PaymentKeys(db, id) : ~db.payments[o].deleted}

\* update: the lookup; status "" stands for a dto without status
PaymentsUpdateRead(p, id, status) ==
    /\ pc[p] = "idle"
    /\ UNCHANGED dbvars
    /\ IF FindPayment(DB, id) = {}
       THEN Return(p, "payments.update", 404, 0, "Payment not found")
       ELSE \E o \in FindPayment(DB, id) :
              Goto(p, "pupdate_tx",
                   [NoLocal EXCEPT !.orderId = o, !.paymentId = id,
                                   !.status = status, !.method = payments[o].status])

\* the statements of update's transaction; l.method holds existing.status
PaymentsUpdateWrites(l) ==
    <<PaymentUpdate(l.paymentId, IF l.status = "" THEN l.method ELSE l.status, FALSE)>>
    \o (IF l.status = "SUCCESS" /\ l.method # "SUCCESS"
        THEN <<OrderUpdate(l.orderId, "PAID"),
               TransactionUpdateMany(l.paymentId, "SUCCESS")>>
        ELSE <<>>)

PaymentsUpdateTx(p, failAt) ==
    /\ pc[p] = "pupdate_tx"
    /\ failAt \in FailPoints(PaymentsUpdateWrites(local[p]))
    /\   LET r == RunTransaction(DB, PaymentsUpdateWrites(local[p]), failAt)
         IN  /\ SetDB(r.db)
             /\ IF r.ok THEN Return(p, "payments.update", 200, 0, "OK")
                ELSE Return(p, "payments.update", 500, 0, "Internal server error")

\* delete: the lookup
PaymentsDeleteRead(p, id) ==
    /\ pc[p] = "idle"
    /\ UNCHANGED dbvars
    /\ IF FindPayment(DB, id) = {}
       THEN Return(p, "payments.delete", 404, 0, "Payment not found")
       ELSE \E o \in FindPayment(DB, id) :
              Goto(p, "pdelete_tx",
                   [NoLocal EXCEPT !.orderId = o, !.userId = orders[o].userId,
                                   !.paymentId = id, !.amount = payments[o].amount])

\* the statements of delete's transaction
PaymentsDeleteWrites(l) ==
    <<PaymentUpdate(l.paymentId, "CANCELLED", TRUE),
      TransactionCreate(TxRow(l.userId, l.orderId, l.paymentId, "REFUND", "SUCCESS",
                              l.amount, "Payment cancelled (refunded)"))>>

PaymentsDeleteTx(p, failAt) ==
    /\ pc[p] = "pdelete_tx"
    /\ failAt \in FailPoints(PaymentsDeleteWrites(local[p]))
    /\   LET r == RunTransaction(DB, PaymentsDeleteWrites(local[p]), failAt)
         IN  /\ WithinBounds(r.db)
             /\ SetDB(r.db)
             /\ IF r.ok THEN Return(p, "payments.delete", 200, 0, "OK")
                ELSE Return(p, "payments.delete", 500, 0, "Internal server error")

----------------------------------------------------------------------------

Fail == BOOLEAN
FailAts == 0..4
AnyReply == GatewayReplies({0, 1, -1, -2, InvoiceCancelled} \cup InvoiceIds)

Callback(p) ==
    \/ \E u \in Customers : OrdersCreate(p, u)
    \/ \E dto \in ClickRequests : PrepareRead(p, dto)
    \/ \E fail \in Fail : PrepareUpsert(p, fail)
    \/ \E fail \in Fail : PrepareLog(p, fail)
    \/ \E dto \in ClickRequests : CompleteRead(p, dto)
    \/ \E failAt \in FailAts : CompleteTx(p, failAt)
    \/ Reply(p)

NextCallback == \E p \in Procs : Callback(p)

\* PREPARE and COMPLETE deliveries, interleaved at every await
SpecCallback == Init /\ [][NextCallback]_vars

NextWebhook == Callback(1)

\* PREPARE and COMPLETE deliveries, one at a time
SpecWebhook == Init /\ [][NextWebhook]_vars

NextFaults ==
    \/ Callback(1)
    \/ \E dto \in ClickRequests : PrepareReadThrows(1, dto)
    \/ \E dto \in ClickRequests : CompleteReadThrows(1, dto)

\* PREPARE and COMPLETE deliveries, one at a time, with a store that may fail
\* at the lookup as well as at every write
SpecFaults == Init /\ [][NextFaults]_vars

\* amounts of the deliveries: the order total, one inside the tolerance and one
\* outside it
NearAmounts == Amounts \cup {OrderTotal + 5}
\* the deliveries signed by the gateway
NearRequests ==
    {dto \in ClickRequestsOf(ClickTransIds, NearAmounts) : VerifySignature(dto, SecretKey)}
OrderStatusInputs == OrderStatus \cup {""}

NextOrder ==
    \/ \E u \in Customers : OrdersCreate(1, u)
    \/ \E o \in OrderIdInputs, st \in OrderStatusInputs : OrdersUpdateRead(1, o, st)
    \/ \E fail \in Fail : OrdersUpdateWrite(1, fail)
    \/ \E o \in OrderIdInputs : OrdersDeleteRead(1, o)
    \/ \E fail \in Fail : OrdersDeleteUpdate(1, fail)
    \/ \E fail \in Fail : OrdersDeleteLog(1, fail)
    \/ \E dto \in NearRequests : PrepareRead(1, dto)
    \/ \E fail \in Fail : PrepareUpsert(1, fail)
    \/ \E fail \in Fail : PrepareLog(1, fail)
    \/ \E dto \in NearRequests : CompleteRead(1, dto)
    \/ \E failAt \in FailAts : CompleteTx(1, failAt)
    \/ Reply(1)

\* PREPARE and COMPLETE deliveries, one at a time, on orders that are also
\* updated and soft-deleted through OrdersService
SpecOrder == Init /\ [][NextOrder]_vars

TokenReplies == GatewayReplies({0, InvoicePaid})

NextToken ==
    \/ \E u \in Customers : OrdersCreate(1, u)
    \/ \E o \in OrderIdInputs, st \in OrderStatusInputs : OrdersUpdateRead(1, o, st)
    \/ \E fail \in Fail : OrdersUpdateWrite(1, fail)
    \/ \E o \in OrderIdInputs : OrdersDeleteRead(1, o)
    \/ \E fail \in Fail : OrdersDeleteUpdate(1, fail)
    \/ \E fail \in Fail : OrdersDeleteLog(1, fail)
    \/ \E u \in Users, reply \in TokenReplies, fail \in Fail :
          RequestCardToken(1, u, reply, fail)
    \/ \E u \in Users, t \in TokenInputs, reply \in VerifyReplies :
          VerifyCardTokenRead(1, u, t, reply)
    \/ \E fail \in Fail : VerifyCardTokenWrite(1, fail)
    \/ \E u \in Users, t \in TokenInputs : DeleteCardTokenRead(1, u, t)
    \/ \E reply \in TokenReplies, fail \in Fail : DeleteCardTokenCall(1, reply, fail)
    \/ \E u \in Users, o \in OrderIdInputs, a \in Amounts :
          CreateInvoiceRead(1, u, o, a)
    \/ \E reply \in AnyReply, failAt \in FailAts : CreateInvoiceCall(1, reply, failAt)
    \/ \E u \in Users, o \in OrderIdInputs, a \in Amounts, t \in TokenInputs :
          TokenPayRead(1, u, o, a, t)
    \/ TokenPayCard(1)
    \/ \E reply \in TokenReplies, i \in InvoiceIds, failAt \in FailAts :
          TokenPayCall(1, reply, i, failAt)
    \/ Reply(1)

\* invoice creation and payment with a card token, one request at a time,
\* with the saved-card operations and OrdersService.update/delete
SpecToken == Init /\ [][NextToken]_vars

Creation(p) ==
    \/ \E u \in Customers : OrdersCreate(p, u)
    \/ \E u \in Customers, reply \in TokenReplies, fail \in Fail :
          RequestCardToken(p, u, reply, fail)
    \/ \E u \in Customers, t \in Tokens, reply \in VerifyReplies :
          VerifyCardTokenRead(p, u, t, reply)
    \/ \E fail \in Fail : VerifyCardTokenWrite(p, fail)
    \/ \E u \in Customers, o \in OrderIdInputs : CreateInvoiceRead(p, u, o, OrderTotal)
    \/ \E reply \in AnyReply, failAt \in FailAts : CreateInvoiceCall(p, reply, failAt)
    \/ \E u \in Customers, o \in OrderIdInputs, t \in Tokens :
          TokenPayRead(p, u, o, OrderTotal, t)
    \/ TokenPayCard(p)
    \/ \E reply \in TokenReplies, i \in InvoiceIds, failAt \in FailAts :
          TokenPayCall(p, reply, i, failAt)
    \/ \E o \in OrderIdInputs, m \in PaymentMethod :
          PaymentsCreateRead(p, o, OrderTotal, m)
    \/ \E failAt \in FailAts : PaymentsCreateTx(p, failAt)
    \/ \E dto \in NearRequests : PrepareRead(p, dto)
    \/ \E fail \in Fail : PrepareUpsert(p, fail)
    \/ \E fail \in Fail : PrepareLog(p, fail)
    \/ Reply(p)

NextCreation == \E p \in Procs : Creation(p)

\* the entry points that create a Payment, interleaved at every await
SpecCreation == Init /\ [][NextCreation]_vars

PaymentIdInputs == {PaymentIdSeq[i] : i \in DOMAIN PaymentIdSeq} \cup {MissingOrderId}
ExternalIdInputs == {ToStr(i) : i \in LookupIds}
StatusInputs == PaymentStatus \cup {""}

NextLifecycle ==
    \/ \E u \in Customers : OrdersCreate(1, u)
    \/ \E o \in OrderIdInputs, st \in OrderStatusInputs : OrdersUpdateRead(1, o, st)
    \/ \E fail \in Fail : OrdersUpdateWrite(1, fail)
    \/ \E o \in OrderIdInputs : OrdersDeleteRead(1, o)
    \/ \E fail \in Fail : OrdersDeleteUpdate(1, fail)
    \/ \E fail \in Fail : OrdersDeleteLog(1, fail)
    \/ \E dto \in NearRequests : PrepareRead(1, dto)
    \/ \E fail \in Fail : PrepareUpsert(1, fail)
    \/ \E fail \in Fail : PrepareLog(1, fail)
    \/ \E u \in Customers, o \in OrderIdInputs : CreateInvoiceRead(1, u, o, OrderTotal)
    \/ \E reply \in AnyReply, failAt \in FailAts : CreateInvoiceCall(1, reply, failAt)
    \/ \E i \in LookupIds, reply \in AnyReply : CheckInvoiceStatusRead(1, i, reply)
    \/ \E failAt \in FailAts : UpdatePaymentStatusTx(1, failAt)
    \/ \E x \in ExternalIdInputs : CancelPaymentRead(1, x)
    \/ \E reply \in AnyReply, failAt \in FailAts : CancelPaymentCall(1, reply, failAt)
    \/ \E o \in OrderIdInputs, m \in PaymentMethod :
          PaymentsCreateRead(1, o, OrderTotal, m)
    \/ \E failAt \in FailAts : PaymentsCreateTx(1, failAt)
    \/ \E id \in PaymentIdInputs : PaymentsDeleteRead(1, id)
    \/ \E failAt \in FailAts : PaymentsDeleteTx(1, failAt)
    \/ Reply(1)

\* the life of an Order and of its Payment, one request at a time: the
\* OrdersService operations with the entry points that create, settle,
\* cancel and delete a Payment
SpecLifecycle == Init /\ [][NextLifecycle]_vars

Cards(p) ==
    \/ \E u \in Customers : OrdersCreate(p, u)
    \/ \E u \in Users, reply \in TokenReplies, fail \in Fail :
          RequestCardToken(p, u, reply, fail)
    \/ \E u \in Users, t \in TokenInputs, reply \in VerifyReplies :
          VerifyCardTokenRead(p, u, t, reply)
    \/ \E fail \in Fail : VerifyCardTokenWrite(p, fail)
    \/ \E u \in Users, t \in TokenInputs : DeleteCardTokenRead(p, u, t)
    \/ \E reply \in TokenReplies, fail \in Fail : DeleteCardTokenCall(p, reply, fail)
    \/ \E u \in Users, o \in OrderIdInputs, t \in TokenInputs :
          TokenPayRead(p, u, o, OrderTotal, t)
    \/ TokenPayCard(p)
    \/ \E reply \in TokenReplies, i \in InvoiceIds, failAt \in FailAts :
          TokenPayCall(p, reply, i, failAt)
    \/ Reply(p)

NextCards == \E p \in Procs : Cards(p)

\* the saved-card operations and payment with a card token, interleaved at
\* every await
SpecCards == Init /\ [][NextCards]_vars


\* the deliveries of the webhook: every genuine one, and the forgeries of the
\* error-free one for the order's total
Deliveries ==
    {dto \in ClickRequests :
        \/ VerifySignature(dto, SecretKey)
        \/ dto.error = 0 /\ dto.amount = OrderTotal}

\* the COMPLETE deliveries for the order's total, the amount of a Payment that
\* PREPARE accepted; SpecWebhook and SpecOrder draw the other amounts too
Confirmations == {dto \in Deliveries : dto.amount = OrderTotal}

Request(p) ==
    \/ \E u \in Customers : OrdersCreate(p, u)
    \/ \E dto \in Deliveries : PrepareRead(p, dto)
    \/ \E fail \in Fail : PrepareUpsert(p, fail)
    \/ \E fail \in Fail : PrepareLog(p, fail)
    \/ \E dto \in Confirmations : CompleteRead(p, dto)
    \/ \E failAt \in FailAts : CompleteTx(p, failAt)
    \/ \E u \in Users, o \in OrderIdInputs, a \in Amounts :
          CreateInvoiceRead(p, u, o, a)
    \/ \E reply \in AnyReply, failAt \in FailAts : CreateInvoiceCall(p, reply, failAt)
    \/ \E i \in LookupIds, reply \in AnyReply : CheckInvoiceStatusRead(p, i, reply)
    \/ \E x \in ExternalIdInputs, reply \in AnyReply :
          CheckPaymentStatusRead(p, x, reply)
    \/ \E failAt \in FailAts : UpdatePaymentStatusTx(p, failAt)
    \/ \E x \in ExternalIdInputs : CancelPaymentRead(p, x)
    \/ \E reply \in AnyReply, failAt \in FailAts : CancelPaymentCall(p, reply, failAt)
    \/ \E o \in OrderIdInputs, a \in Amounts, m \in PaymentMethod :
          PaymentsCreateRead(p, o, a, m)
    \/ \E failAt \in FailAts : PaymentsCreateTx(p, failAt)
    \/ \E id \in PaymentIdInputs, st \in StatusInputs : PaymentsUpdateRead(p, id, st)
    \/ \E failAt \in FailAts : PaymentsUpdateTx(p, failAt)
    \/ \E id \in PaymentIdInputs : PaymentsDeleteRead(p, id)
    \/ \E failAt \in FailAts : PaymentsDeleteTx(p, failAt)
    \/ Reply(p)

Next == Request(1)

\* every entry point, one request at a time
Spec == Init /\ [][Next]_vars

----------------------------------------------------------------------------
(* Properties *)

Replied(p, op) == pc[p] = "reply" /\ local[p].op = op

\* the number of rows of the bag b that satisfy Test
CountRows(b, Test(_)) == SumOver(b, {r \in DOMAIN b : Test(r)})

SuccessRows(paymentId) ==
    CountRows(transactions, LAMBDA r :
        r.paymentId = paymentId /\ r.type = "PAYMENT" /\ r.status = "SUCCESS")

Genuine(dto) ==
    dto.sign_string = MD5(SignData(dto.click_trans_id, dto.service_id, SecretKey,
                                   dto.merchant_trans_id, dto.amount, dto.action,
                                   dto.sign_time))

\* C1: under any interleaving of the deliveries, a Payment has at most one
\* SUCCESS Transaction row of type PAYMENT (it is completed once).
C1_SingleSuccessRow ==
    \A o \in DOMAIN payments : SuccessRows(payments[o].id) <= 1

\* a COMPLETE delivery with a genuine signature for an Order whose Payment is
\* already SUCCESS
Replay(dto) ==
    /\ Genuine(dto)
    /\ FindOrder(DB, dto.merchant_trans_id)
    /\ HasPayment(DB, dto.merchant_trans_id)
    /\ payments[dto.merchant_trans_id].status = "SUCCESS"

C2_Step ==
    /\ \A o \in DOMAIN payments :
         o \in DOMAIN payments' /\ payments'[o].id = payments[o].id
    /\ \A p \in Procs, failAt \in FailAts :
         (CompleteTx(p, failAt) /\ local'[p].code = 0)
            => /\ payments'[local[p].orderId].status = "SUCCESS"
               /\ local'[p].id = PrepareId(payments'[local[p].orderId].id)
    /\ \A p \in Procs, dto \in ClickRequests :
         (CompleteRead(p, dto) /\ Replay(dto))
            => /\ UNCHANGED dbvars
               /\ pc'[p] = "reply"
               /\ local'[p].code = 0
               /\ local'[p].id = PrepareId(payments[dto.merchant_trans_id].id)

\* C2: the COMPLETE that sets a Payment to SUCCESS answers error 0 with the
\* confirm id derived from the Payment id, which never changes; every later
\* genuine COMPLETE for that Order answers error 0 with that same confirm id
\* and changes no Payment, Order or Transaction row.
C2_Idempotent == [][C2_Step]_vars

C2_Replayed ==
    \E p \in Procs, o \in DOMAIN payments :
        /\ Replied(p, "complete")
        /\ local[p].note = "Already paid"
        /\ local[p].code = 0
        /\ local[p].id = PrepareId(payments[o].id)
        /\ SuccessRows(payments[o].id) = 1

C3_Step ==
    \A p \in Procs, failAt \in FailAts :
        (pc[p] = "complete_tx" /\ CompleteTx(p, failAt) /\ local[p].error >= 0)
           => LET l == local[p]
                  o == l.orderId
              IN  \/ /\ failAt = 0
                     /\ local'[p].code = 0
                     /\ payments' = [payments EXCEPT ![o].status = "SUCCESS"]
                     /\ orders' = [orders EXCEPT ![o].status = "PAID"]
                     /\ transactions' = transactions (+) SetToBag({
                            TxRow(l.userId, o, l.paymentId, "PAYMENT", "SUCCESS",
                                  l.amount, "Click payment completed")})
                  \/ /\ local'[p].code = -1
                     /\ UNCHANGED dbvars

\* C3: the transaction of a successful COMPLETE either makes its three writes
\* (Payment SUCCESS, Order PAID, one SUCCESS Transaction row) or, when a
\* failure strikes at any of them, leaves Payment, Order and Transaction rows
\* as they were.
C3_CompleteAtomic == [][C3_Step]_vars

C3_Aborted ==
    \E p \in Procs, o \in DOMAIN payments :
        /\ Replied(p, "complete")
        /\ local[p].code = -1
        /\ local[p].note = "Internal server error"
        /\ payments[o].status = "PENDING"
        /\ orders[o].status = "PENDING"
        /\ SuccessRows(payments[o].id) = 0

\* the deliveries whose sign_string is not the digest of their fields
ForgedRequests == {dto \in ClickRequests : ~Genuine(dto)}

C4_Step ==
    \A p \in Procs, dto \in ForgedRequests :
        (pc[p] = "idle" /\ (PrepareRead(p, dto) \/ CompleteRead(p, dto)))
           => /\ pc'[p] = "reply"
              /\ local'[p].code = -1
              /\ UNCHANGED dbvars

\* C4: a PREPARE or COMPLETE whose sign_string is not the digest of its fields
\* and the secret key is answered with error -1 and changes no row.
C4_BadSignatureRejected == [][C4_Step]_vars

C4_Rejected ==
    \E p \in Procs, o \in DOMAIN payments :
        /\ pc[p] = "reply"
        /\ local[p].op = "complete"
        /\ local[p].note = "Invalid signature"
        /\ local[p].code = -1
        /\ payments[o].status = "PENDING"

\* C5: a Payment that is SUCCESS stays SUCCESS or becomes CANCELLED.
C5_SuccessOnlyToCancelled ==
    [][\A o \in DOMAIN payments :
          payments[o].status = "SUCCESS"
             => payments'[o].status \in {"SUCCESS", "CANCELLED"}]_vars

\* C6: a Payment that is FAILED or CANCELLED never becomes PENDING or SUCCESS.
C6_FailedCancelledTerminal ==
    [][\A o \in DOMAIN payments :
          payments[o].status \in {"FAILED", "CANCELLED"}
             => payments'[o].status \notin {"PENDING", "SUCCESS"}]_vars

C7_Step ==
    \A p \in Procs, x \in ExternalIdInputs :
        (/\ pc[p] = "idle"
         /\ local'[p].op = "cancelPayment" \/ pc'[p] = "cancel_call"
         /\ CancelPaymentRead(p, x)
         /\ \A o \in DOMAIN payments :
               payments[o].ext = x => payments[o].status # "SUCCESS")
           => /\ pc'[p] = "reply"
              /\ local'[p].code \in {400, 404}
              /\ UNCHANGED dbvars

\* C7: cancelPayment for a Payment that is not SUCCESS is rejected in its
\* first step, so the reversal call is never reached, and no row changes; a
\* request waiting on the reversal call has read a SUCCESS Payment.
C7_CancelOnlySuccess ==
    [][C7_Step /\ \A p \in Procs :
                    pc'[p] = "cancel_call" => local'[p].status = "SUCCESS"]_vars

C7_Rejected ==
    \E p \in Procs, o \in DOMAIN payments :
        /\ Replied(p, "cancelPayment")
        /\ local[p].code = 400
        /\ local[p].note = "Can only cancel successful payments"
        /\ payments[o].status \in {"PENDING", "FAILED"}

C8_Step ==
    \A p \in Procs, reply \in GatewayReplies({0}), failAt \in FailAts :
        (/\ pc[p] = "cancel_call"
         /\ ~reply.reached \/ reply.error_code # 0
         /\ CancelPaymentCall(p, reply, failAt))
           => /\ pc'[p] = "reply"
              /\ local'[p].code = 400
              /\ UNCHANGED dbvars

\* C8: when the reversal call fails (unreachable gateway or non-zero error
\* code) cancelPayment fails with a 400 and no row changes.
C8_ReversalFailureNoChange == [][C8_Step]_vars

C8_Failed ==
    \E p \in Procs, o \in DOMAIN payments :
        /\ Replied(p, "cancelPayment")
        /\ local[p].note = "Failed to cancel payment"
        /\ payments[o].status = "SUCCESS"
        /\ ~payments[o].deleted
        /\ orders[o].status = "PAID"

C9_Step ==
    \A p \in Procs, reply \in GatewayReplies({0}), failAt \in FailAts :
        (/\ pc[p] = "cancel_call"
         /\ reply.reached /\ reply.error_code = 0
         /\ CancelPaymentCall(p, reply, failAt))
           => LET o == local[p].orderId
              IN  \/ /\ local'[p].code = 200
                     /\ payments' = [payments EXCEPT ![o].status = "CANCELLED",
                                                      ![o].deleted = TRUE]
                     /\ orders' = [orders EXCEPT ![o].status = "CANCELLED"]
                     /\ transactions' = transactions (+) SetToBag({
                            TxRow(orders[o].userId, o, payments[o].id, "REFUND",
                                  "SUCCESS", payments[o].amount,
                                  "Payment cancelled and refunded via Click")})
                  \/ /\ local'[p].code = 500
                     /\ UNCHANGED dbvars

\* C9: when the reversal is confirmed, cancelPayment marks the Payment
\* CANCELLED and soft-deleted, the Order CANCELLED and adds one REFUND
\* Transaction of the Payment's amount, all together or not at all.
C9_CancelAtomic == [][C9_Step]_vars

C9_Cancelled ==
    \E p \in Procs, o \in DOMAIN payments :
        /\ Replied(p, "cancelPayment")
        /\ local[p].code = 200
        /\ payments[o].status = "CANCELLED"
        /\ payments[o].deleted
        /\ orders[o].status = "CANCELLED"
        /\ CountRows(transactions, LAMBDA r :
               r.type = "REFUND" /\ r.paymentId = payments[o].id
               /\ r.amount = payments[o].amount) = 1

\* C10: every step that changes the status of a Payment also inserts one
\* Transaction row for that Payment.
C10_StatusChangeLogged ==
    [][\A o \in DOMAIN payments :
          payments'[o].status # payments[o].status
             => \E r \in DOMAIN transactions' :
                   /\ transactions' = transactions (+) SetToBag({r})
                   /\ r.paymentId = payments[o].id]_vars

PrepareRows(paymentId) ==
    CountRows(transactions, LAMBDA r :
        r.paymentId = paymentId /\ r.description = "Click PREPARE")

\* C11: the Payment that PREPARE upserts and the PENDING Transaction row it
\* logs are written together or not at all: once no PREPARE is between its
\* two writes, every Payment has its PREPARE row.
C11_PrepareAtomic ==
    (\A p \in Procs : pc[p] # "prepare_log")
       => \A o \in DOMAIN payments : PrepareRows(payments[o].id) >= 1

\* the rejection codes of PREPARE whose condition holds for the delivery
PrepareRejections(dto) ==
    LET o == dto.merchant_trans_id
    IN  IF ~HasOrder(DB, o) \/ orders[o].deleted THEN {-5}
        ELSE (IF orders[o].status # "PENDING" THEN {-4} ELSE {})
             \cup (IF HasPayment(DB, o) /\ payments[o].status = "SUCCESS"
                   THEN {-4} ELSE {})
             \cup (IF Abs(orders[o].total - dto.amount) > AmountTolerance
                   THEN {-2} ELSE {})

C13_Step ==
    \A p \in Procs :
        (pc[p] = "idle" /\ (local'[p].op = "prepare" \/ pc'[p] = "prepare_upsert"))
           => \A dto \in NearRequests :
                 (PrepareRead(p, dto) /\ PrepareRejections(dto) # {})
                    => /\ pc'[p] = "reply"
                       /\ local'[p].code \in PrepareRejections(dto)
                       /\ UNCHANGED dbvars

\* C13: a genuine PREPARE is answered -5 for a missing or soft-deleted Order,
\* -4 for an Order that is not PENDING or whose Payment is SUCCESS, -2 for an
\* amount more than the tolerance away from Order.total, and changes no row.
C13_PrepareRejections == [][C13_Step]_vars

C13_Rejected ==
    \E p \in Procs, o \in DOMAIN orders :
        /\ Replied(p, "prepare")
        /\ local[p].code = -5
        /\ orders[o].deleted

C14_Original ==
    \A p \in Procs :
        (pc[p] = "idle" /\ (local'[p].op = "complete" \/ pc'[p] = "complete_tx"))
           => \A dto \in NearRequests :
                 LET o == dto.merchant_trans_id
                     want == IF ~HasOrder(DB, o) \/ orders[o].deleted THEN -5
                             ELSE IF ~HasPayment(DB, o) THEN -6
                             ELSE IF dto.action # ActionComplete THEN -3
                             ELSE 0
                 IN  (CompleteRead(p, dto) /\ want # 0)
                        => /\ pc'[p] = "reply"
                           /\ local'[p].code = want
                           /\ UNCHANGED dbvars

\* C14 as stated: a genuine COMPLETE is answered -5 when the Order is not found,
\* -6 when it has no Payment and -3 whenever the action is not 1, whatever the
\* status of the Payment, and changes no row.
C14_CompleteRejections == [][C14_Original]_vars

C14_Step ==
    \A p \in Procs :
        (pc[p] = "idle" /\ (local'[p].op = "complete" \/ pc'[p] = "complete_tx"))
           => \A dto \in NearRequests :
                 LET o == dto.merchant_trans_id
                     want == IF ~HasOrder(DB, o) \/ orders[o].deleted THEN -5
                             ELSE IF ~HasPayment(DB, o) THEN -6
                             ELSE IF payments[o].status = "SUCCESS" THEN 0
                             ELSE IF dto.action # ActionComplete THEN -3
                             ELSE 1
                 IN  (CompleteRead(p, dto) /\ want # 1)
                        => /\ pc'[p] = "reply"
                           /\ local'[p].code = want
                           /\ UNCHANGED dbvars

\* C14 amended: a genuine COMPLETE is answered -5 when the Order is not found,
\* -6 when it has no Payment, 0 when the Payment is already SUCCESS (whatever
\* the action), and -3 when the Payment is not SUCCESS and the action is not 1;
\* none of these changes a row.
C14_CompleteRejectionsAmended == [][C14_Step]_vars

C14_InvalidAction ==
    \E p \in Procs, o \in DOMAIN payments :
        /\ Replied(p, "complete")
        /\ local[p].code = -3
        /\ payments[o].status \in {"PENDING", "FAILED"}

\* C15: a COMPLETE whose amount is more than the tolerance away from
\* Order.total does not make the Payment SUCCESS nor the Order PAID.
C15_AmountChecked ==
    [][\A p \in Procs, failAt \in FailAts :
          (/\ CompleteTx(p, failAt)
           /\ Abs(orders[local[p].orderId].total - local[p].amount) > AmountTolerance)
             => /\ payments'[local[p].orderId].status = payments[local[p].orderId].status
                /\ orders'[local[p].orderId].status = orders[local[p].orderId].status]_vars

C16_Step ==
    \A p \in Procs, failAt \in FailAts :
        (CompleteTx(p, failAt) /\ local[p].error < 0)
           => LET l == local[p]
                  o == l.orderId
              IN  \/ /\ failAt = 0
                     /\ local'[p].code = l.error
                     /\ payments' = [payments EXCEPT ![o].status = "FAILED"]
                     /\ orders' = orders
                     /\ transactions' = transactions (+) SetToBag({
                            TxRow(l.userId, o, l.paymentId, "PAYMENT", "FAILED",
                                  l.amount, "Click COMPLETE failed")})
                  \/ /\ local'[p].code = -1
                     /\ UNCHANGED dbvars

\* C16: a genuine COMPLETE with action 1 and a negative provider error on a
\* Payment that is not SUCCESS sets the Payment FAILED and adds one FAILED
\* Transaction row together (or, on a store failure, neither), leaves the
\* Order as it was and answers with the provider's error code; the handler
\* reaches that transaction with the error code of the delivery.
C16_ProviderError ==
    [][/\ C16_Step
       /\ \A p \in Procs :
            (pc[p] = "idle" /\ pc'[p] = "complete_tx")
               => \A dto \in NearRequests :
                     CompleteRead(p, dto)
                        => /\ local'[p].error = dto.error
                           /\ dto.action = ActionComplete
                           /\ payments[dto.merchant_trans_id].status # "SUCCESS"]_vars

C16_Failed ==
    \E p \in Procs, o \in DOMAIN payments :
        /\ Replied(p, "complete")
        /\ local[p].code < -1
        /\ payments[o].status = "FAILED"
        /\ orders[o].status = "PENDING"
        /\ CountRows(transactions, LAMBDA r :
               r.paymentId = payments[o].id /\ r.status = "FAILED") = 1

\* a genuine PREPARE that meets every condition of acceptance
Acceptable(dto) ==
    /\ dto \in NearRequests
    /\ HasOrder(DB, dto.merchant_trans_id)
    /\ PrepareRejections(dto) = {}

C17_Step ==
    /\ \A p \in Procs :
         (pc[p] = "idle" /\ (local'[p].op = "prepare" \/ pc'[p] = "prepare_upsert"))
            => \A dto \in NearRequests :
                  (PrepareRead(p, dto) /\ Acceptable(dto))
                     => /\ pc'[p] = "prepare_upsert"
                        /\ local'[p].orderId = dto.merchant_trans_id
                        /\ local'[p].transId = dto.click_trans_id
                        /\ UNCHANGED dbvars
    /\ \A p \in Procs :
         PrepareUpsert(p, FALSE)
            => LET o == local[p].orderId
               IN  /\ HasPayment(DB', o)
                   /\ payments'[o].status = "PENDING"
                   /\ payments'[o].ext = ToStr(local[p].transId)
                   /\ \A o2 \in DOMAIN payments : o2 # o => payments'[o2] = payments[o2]
                   /\ DOMAIN payments' = DOMAIN payments \cup {o}
                   /\ UNCHANGED <<orders, transactions>>
    /\ \A p \in Procs :
         PrepareLog(p, FALSE)
            => LET l == local[p]
                   o == l.orderId
               IN  /\ local'[p].code = 0
                   /\ payments' = payments
                   /\ payments[o].status = "PENDING"
                   /\ payments[o].ext = ToStr(l.transId)
                   /\ orders' = orders
                   /\ orders[o].status = "PENDING"
                   /\ transactions' = transactions (+) SetToBag({
                          TxRow(l.userId, o, payments[o].id, "PAYMENT", "PENDING",
                                l.amount, "Click PREPARE")})

\* C17: a genuine PREPARE for a live PENDING Order, with an amount within the
\* tolerance and no SUCCESS Payment, is accepted; when its two writes go
\* through, the Order has its one Payment in status PENDING with the
\* click_trans_id of the delivery as external id, one PENDING Transaction row is
\* added, Order.status is still PENDING and the answer is error 0.
C17_PrepareAccepted == [][C17_Step]_vars

C17_Prepared ==
    \E p \in Procs, o \in DOMAIN payments :
        /\ Replied(p, "prepare")
        /\ local[p].code = 0
        /\ payments[o].status = "PENDING"
        /\ payments[o].amount # orders[o].total
        /\ PrepareRows(payments[o].id) = 1

\* the Order exists, is not soft-deleted, belongs to the caller, has no Payment
\* and is PENDING
Eligible(userId, orderId) ==
    /\ HasOrder(DB, orderId)
    /\ ~orders[orderId].deleted
    /\ orders[orderId].userId = userId
    /\ ~HasPayment(DB, orderId)
    /\ orders[orderId].status = "PENDING"

C18_Step ==
    \A p \in Procs, u \in Users, o \in OrderIdInputs, a \in Amounts :
        /\ CreateInvoiceRead(p, u, o, a)
              => /\ UNCHANGED dbvars
                 /\ IF Eligible(u, o) THEN pc'[p] = "invoice_call"
                    ELSE pc'[p] = "reply" /\ local'[p].code \in {400, 404}
        /\ \A t \in TokenInputs :
              TokenPayRead(p, u, o, a, t)
                 => /\ UNCHANGED dbvars
                    /\ IF Eligible(u, o) THEN pc'[p] = "token_card"
                       ELSE pc'[p] = "reply" /\ local'[p].code \in {400, 404}

\* C18: createInvoice and paymentWithToken go on towards the gateway call only
\* for an Order that exists, is not soft-deleted, belongs to the caller, has no
\* Payment and is PENDING; otherwise they are rejected in their first step,
\* which changes no row; the gateway is called only by a request that passed
\* that step.
C18_OrderValidated == [][C18_Step]_vars

C18_Rejected ==
    \E p \in Procs, o \in DOMAIN payments :
        /\ Replied(p, "paymentWithToken")
        /\ local[p].code = 400
        /\ local[p].note = "Rejected"
        /\ ~orders[o].deleted

C19_Step ==
    \A p \in Procs, reply \in TokenReplies, i \in InvoiceIds, failAt \in FailAts :
        (TokenPayCall(p, reply, i, failAt) /\ reply.reached /\ reply.error_code = 0)
           => LET l == local[p]
                  o == l.orderId
                  st == IF reply.status = 1 THEN "SUCCESS" ELSE "PENDING"
              IN  \/ /\ local'[p].code = 201
                     /\ ~HasPayment(DB, o)
                     /\ payments' = (o :> [id |-> NewPaymentId(DB), amount |-> l.amount,
                                            method |-> "CLICK", status |-> st,
                                            ext |-> ToStr(i), deleted |-> FALSE])
                                     @@ payments
                     /\ transactions' = transactions (+) SetToBag({
                            TxRow(l.userId, o, payments'[o].id, "PAYMENT", st, l.amount,
                                  "Payment via Click card token")})
                     /\ orders' = IF st = "SUCCESS"
                                  THEN [orders EXCEPT ![o].status = "PAID"]
                                  ELSE orders
                     /\ cards' = cards
                  \/ /\ local'[p].code = 500
                     /\ UNCHANGED dbvars

\* C19: when the gateway accepts the token payment, paymentWithToken creates
\* the Payment and its Transaction row together (or, on a store failure,
\* nothing), both SUCCESS exactly when the gateway reported payment status 1
\* and PENDING otherwise, and sets the Order PAID in that same unit exactly
\* when the Payment is created SUCCESS.
C19_TokenPaymentAtomic == [][C19_Step]_vars

C19_Processing ==
    \E p \in Procs, o \in DOMAIN payments :
        /\ Replied(p, "paymentWithToken")
        /\ local[p].note = "Payment processing"
        /\ payments[o].status = "PENDING"
        /\ orders[o].status = "PENDING"
        /\ CountRows(transactions, LAMBDA r :
               r.paymentId = payments[o].id /\ r.status = "PENDING") = 1

\* the card of the token is active, live and owned by the user
Usable(userId, token) ==
    /\ token \in DOMAIN cards
    /\ cards[token].userId = userId
    /\ cards[token].active
    /\ ~cards[token].deleted

C20_Step ==
    \A p \in Procs :
        (TokenPayCard(p) /\ ~Usable(local[p].userId, local[p].token))
           => /\ pc'[p] = "reply"
              /\ local'[p].code = 400
              /\ local'[p].note = "Card token not found or not verified"
              /\ UNCHANGED dbvars

\* C20: paymentWithToken with a card token that is not verified, soft-deleted,
\* owned by another user or unknown is rejected with 'Card token not found or
\* not verified' at the card lookup, so the gateway is not called, and no row
\* changes; a request waiting on the gateway call holds a usable card token.
C20_UnverifiedTokenRejected ==
    [][C20_Step /\ \A p \in Procs :
                     (pc[p] # "token_call" /\ pc'[p] = "token_call")
                        => Usable(local'[p].userId, local'[p].token)]_vars

C20_Rejected ==
    \E p \in Procs, t \in DOMAIN cards, o \in DOMAIN orders :
        /\ Replied(p, "paymentWithToken")
        /\ local[p].note = "Card token not found or not verified"
        /\ cards[t].userId = orders[o].userId
        /\ ~cards[t].active
        /\ ~cards[t].deleted
        /\ ~HasPayment(DB, o)
        /\ orders[o].status = "PENDING"

\* C12: an Order never has a second Payment beside its first, whatever its
\* status, under any interleaving of createInvoice, paymentWithToken,
\* PaymentsService.create and PREPARE: payments are keyed by their unique
\* orderId, a Payment belongs to one Order, and no step puts another Payment
\* row in the place of the one an Order has.
C12_OnePaymentPerOrder ==
    [][/\ \A o \in DOMAIN payments :
            /\ o \in DOMAIN payments'
            /\ payments'[o].id = payments[o].id
            /\ payments'[o].method = payments[o].method
       /\ \A o1, o2 \in DOMAIN payments' :
            payments'[o1].id = payments'[o2].id => o1 = o2]_vars

C12_Raced ==
    \E p, q \in Procs, o \in DOMAIN payments :
        /\ p # q
        /\ pc[p] \in {"invoice_call", "token_call", "pcreate_tx"}
        /\ local[p].orderId = o
        /\ pc[q] = "reply"
        /\ local[q].op \in {"createInvoice", "paymentWithToken", "payments.create",
                             "prepare"}
        /\ local[q].code \in {0, 201}

\* a request that answered with the given status
Answered(p, op, code) == Replied(p, op) /\ local[p].code = code

C21_Step ==
    /\ \A t \in DOMAIN cards' \ DOMAIN cards :
          ~cards'[t].active /\ cards'[t].number = ""
    /\ \A t \in DOMAIN cards' : cards'[t].active => cards'[t].number # ""
    /\ \A t \in DOMAIN cards :
          (t \in DOMAIN cards' /\ cards'[t].active /\ ~cards[t].active)
             => \E p \in Procs :
                   /\ pc[p] = "card_verify"
                   /\ pc'[p] = "reply"
                   /\ local'[p].op = "verifyCardToken"
                   /\ local[p].token = t
                   /\ local[p].userId = cards[t].userId
                   /\ local[p].cardNumber \in CardNumbers
                   /\ cards'[t].number = local[p].cardNumber
    /\ \A p \in Procs :
          (pc[p] = "idle" /\ pc'[p] = "card_verify")
             => \E u \in Users, t \in DOMAIN cards, reply \in VerifyReplies :
                   /\ VerifyCardTokenRead(p, u, t, reply)
                   /\ reply.reached /\ reply.error_code = 0
                   /\ reply.card_number \in CardNumbers
                   /\ cards[t].userId = u
                   /\ local'[p].userId = u
                   /\ local'[p].token = t
                   /\ local'[p].cardNumber = reply.card_number

\* C21: a SavedCard is created inactive with an empty full card number; a
\* card becomes active only in the last step of a verifyCardToken request of
\* its owner that the gateway answered with success and a card number, which
\* that step stores; so every active card carries a card number.
C21_ActiveOnlyVerified == [][C21_Step]_vars

C21_Verified ==
    \E p \in Procs, t \in DOMAIN cards :
        /\ Answered(p, "verifyCardToken", 200)
        /\ cards[t].active
        /\ cards[t].number \in CardNumbers

C22_Step ==
    /\ \A p \in Procs, reply \in GatewayReplies({0}), fail \in Fail :
          (pc[p] = "card_delete" /\ DeleteCardTokenCall(p, reply, fail))
             => LET t == local[p].token
                IN  IF ~(reply.reached /\ reply.error_code = 0)
                    THEN /\ UNCHANGED dbvars
                         /\ local'[p].code = 400
                    ELSE \/ /\ UNCHANGED dbvars
                            /\ local'[p].code = 500
                         \/ /\ cards' = [cards EXCEPT ![t].active = FALSE,
                                                       ![t].deleted = TRUE]
                            /\ UNCHANGED <<orders, payments, transactions>>
                            /\ local'[p].code = 200
    /\ \A t \in DOMAIN cards :
          (t \in DOMAIN cards' /\ cards'[t].deleted /\ ~cards[t].deleted)
             => \E p \in Procs, reply \in GatewayReplies({0}) :
                   /\ pc[p] = "card_delete"
                   /\ local[p].token = t
                   /\ reply.reached /\ reply.error_code = 0
                   /\ DeleteCardTokenCall(p, reply, FALSE)

\* C22: when the gateway's delete-token call fails or answers a non-zero
\* error code, deleteCardToken fails with a 400 and changes no row; a card is
\* deactivated and soft-deleted only by the step of a deleteCardToken request
\* whose gateway call was confirmed.
C22_DeleteFailClosed == [][C22_Step]_vars

C22_Kept ==
    \E p \in Procs, t \in DOMAIN cards :
        /\ Answered(p, "deleteCardToken", 400)
        /\ local[p].note = "Failed to delete card token"
        /\ cards[t].active
        /\ ~cards[t].deleted

\* the error codes of the webhook protocol: 0 or negative
WellFormed(l) == l.code \in -9..0 /\ l.id \in Nat /\ l.note # ""

WebhookLabels == {"prepare_upsert", "prepare_log", "complete_tx"}

C23_Step ==
    \A p \in Procs :
        /\ (pc[p] # "reply" /\ pc'[p] = "reply"
              /\ local'[p].op \in {"prepare", "complete"})
              => WellFormed(local'[p])
        /\ pc[p] \in WebhookLabels
              => /\ pc'[p] \in WebhookLabels \cup {"reply"}
                 /\ pc'[p] = "reply"
                       => local'[p].op = (IF pc[p] = "complete_tx" THEN "complete"
                                          ELSE "prepare")
        /\ (\/ pc[p] = "prepare_upsert" /\ PrepareUpsert(p, TRUE)
            \/ pc[p] = "prepare_log" /\ PrepareLog(p, TRUE)
            \/ pc[p] = "complete_tx"
                  /\ \E failAt \in FailAts \ {0} : CompleteTx(p, failAt)
            \/ pc[p] = "idle" /\ pc'[p] = "reply"
                  /\ \E dto \in ClickRequests :
                        PrepareReadThrows(p, dto) \/ CompleteReadThrows(p, dto))
              => /\ pc'[p] = "reply"
                 /\ local'[p].code = -1
                 /\ local'[p].id = 0
                 /\ local'[p].note = "Internal server error"

C24_PaidImpliesSuccess ==
    \A o \in DOMAIN orders :
        orders[o].status = "PAID"
           => o \in DOMAIN payments /\ payments[o].status = "SUCCESS"

\* C25: a step of a COMPLETE (action 1, error 0) changes Order.status only
\* when the Order is PENDING; on an Order and a Payment that cancelPayment
\* left CANCELLED it changes neither status.
C25_CompleteOnlyPending ==
    [][\A p \in Procs :
          (pc[p] = "complete_tx" /\ local[p].error = 0)
             => LET o == local[p].orderId
                IN  /\ orders'[o].status # orders[o].status
                          => orders[o].status = "PENDING"
                    /\ (orders[o].status = "CANCELLED"
                          /\ payments[o].status = "CANCELLED")
                          => /\ orders'[o].status = "CANCELLED"
                             /\ payments'[o].status = "CANCELLED"]_vars

\* C26: a checkPaymentStatus whose gateway call fails (unreachable, or a
\* non-zero error code) changes no row and does not go on to
\* updatePaymentStatus.
C26_GatewayFailureNoChange ==
    [][\A p \in Procs, x \in ExternalIdInputs, reply \in GatewayReplies({0}) :
          (/\ pc[p] = "idle"
           /\ local'[p].op = "checkPaymentStatus"
           /\ ~(reply.reached /\ reply.error_code = 0)
           /\ CheckPaymentStatusRead(p, x, reply))
             => /\ pc'[p] = "reply"
                /\ UNCHANGED dbvars]_vars

\* C27: every step that moves an Order to PAID leaves it with a Payment
\* whose amount is within the tolerance of Order.total.
C27_PaidAmountMatches ==
    [][\A o \in DOMAIN orders :
          (orders[o].status # "PAID" /\ orders'[o].status = "PAID")
             => /\ o \in DOMAIN payments'
                /\ ~AmountMismatch(orders'[o].total, payments'[o].amount)]_vars

\* C28: a step that creates the Payment row of an Order finds that Order in
\* the store, not soft-deleted and PENDING.
C28_PaymentOnlyForPendingOrder ==
    [][\A o \in DOMAIN payments' \ DOMAIN payments :
          /\ o \in DOMAIN orders
          /\ ~orders[o].deleted
          /\ orders[o].status = "PENDING"]_vars

\* the REFUND rows with status SUCCESS of the bag b
Refunds(b) == {r \in DOMAIN b : r.type = "REFUND" /\ r.status = "SUCCESS"}

\* C29: a REFUND Transaction row with status SUCCESS is written only for an
\* Order that was paid; Payment rows are never removed, so such an Order has
\* a Payment row when the refund is written.
C29_RefundOnlyPaid ==
    [][\A r \in Refunds(transactions') :
          (r \notin DOMAIN transactions \/ transactions'[r] > transactions[r])
             => r.orderId \in DOMAIN payments]_vars

\* C30: a soft-deleted SavedCard is inactive and stays soft-deleted and
\* inactive; no verifyCardToken or deleteCardToken finds it, and the card
\* lookup of a paymentWithToken on its token is rejected.
C30_DeletedCardUnusable ==
    /\ [](\A t \in DOMAIN cards : cards[t].deleted => ~cards[t].active)
    /\ [][\A t \in DOMAIN cards :
            cards[t].deleted
               => /\ cards'[t].deleted
                  /\ ~cards'[t].active
                  /\ \A p \in Procs :
                        /\ ~(/\ pc[p] = "idle"
                             /\ pc'[p] \in {"card_verify", "card_delete"}
                             /\ local'[p].token = t)
                        /\ (/\ pc[p] = "token_card"
                            /\ pc'[p] # "token_card"
                            /\ local[p].token = t)
                              => /\ pc'[p] = "reply"
                                 /\ local'[p].code = 400]_vars

====
